---- MODULE Spec2Model ----
(***************************************************************************)
(* Resilience and traffic-control layer of the chat microservices:         *)
(*   - conversation-service CircuitBreaker and AuthServiceClient           *)
(*     (app/services/external_clients.py),                                 *)
(*   - message-service InMemoryRateLimiter (app/core/rate_limiter.py),     *)
(*   - message-service LLMService.send_message retry loop                  *)
(*     (app/services/llm_service.py).                                      *)
(* Time is counted in integer ticks of a non-decreasing clock.  Every      *)
(* coroutine is cut at its suspension points (the awaited network call,    *)
(* asyncio.sleep): the code between two suspension points is one action.   *)
(***************************************************************************)
EXTENDS Integers, Sequences, FiniteSets, TLC

\* ------------------------------------------------------------------ bounds
\* Concurrent callers of one CircuitBreaker.
NumTasks == 2
\* CircuitBreaker.call invocations in one run.
MaxCalls == 5
\* Last tick of the breaker's clock.
MaxTime == 5
\* failure_threshold is drawn from 1..MaxThreshold at construction.
MaxThreshold == 2
\* recovery_timeout is drawn from 1..MaxRecovery at construction.
MaxRecovery == 2

\* POST /llm/process requests in one run.
MaxLlmCalls == 6

\* The llm-service middleware's limit and window (settings.rate_limit_requests
\* requests per 60 seconds in the source), and how far its clock runs.
MwCalls == 2
MwPeriod == 2
MwMaxTime == 4

\* Last tick of the rate limiter's clock.
RlMaxTime == 4
\* Lengths in ticks of timedelta(minutes=1), timedelta(hours=1) and
\* timedelta(days=1), scaled down, in the order minute < hour < day.
MinuteLen == 2
HourLen == 3
DayLen == 5
\* settings.max_messages_per_minute / _per_hour / _per_day, scaled down.
max_messages_per_minute == 2
max_messages_per_hour == 3
max_messages_per_day == 4

\* ------------------------------------------------------- program constants
\* CircuitBreaker.__init__ defaults, as AuthServiceClient passes them.
DefaultFailureThreshold == 5
DefaultRecoveryTimeout == 60
\* message-service LLMService.__init__: self.max_retries, self.base_delay (1.0 s).
max_retries == 3
base_delay == 1
\* send_message refuses conversations of more than this many messages.
MaxMessages == 100

VARIABLES
    \* CircuitBreaker fields
    state, failure_count, last_failure_time, failure_threshold, recovery_timeout,
    \* the clock read by datetime.utcnow() in the conversation-service
    now,
    \* per task: "idle", or "awaiting" the wrapped operation's network call
    pc,
    \* per task: the in-flight operation was invoked with the breaker HALF_OPEN
    probe,
    \* number of CircuitBreaker.call invocations made so far
    calls,
    \* the last step taken on the breaker: what it was, by whom, with what error
    cbEv,
    \* history: operations failed since the last operation that succeeded
    consecFails,
    \* history: some operation failed otherwise than by a 401/403 answer
    depFailed,
    \* InMemoryRateLimiter._user_requests: identity -> its three timestamp lists
    user_requests,
    \* the clock read by datetime.utcnow() in the message-service
    rlNow,
    \* the last step taken on the rate limiter and what its caller got
    rlEv,
    \* history: identity -> the instants of all its admitted requests
    admitted,
    \* send_message: "idle", "request" (awaiting _make_request), "sleep"
    \* (awaiting asyncio.sleep) or "done"
    llmPc,
    \* send_message's loop variable
    attempt,
    \* number of _make_request invocations of this send_message call
    requests,
    \* the delays slept so far, in order
    sleeps,
    \* history: how each completed attempt ended, in order
    outcomes,
    \* what send_message returned or raised
    llmResult,
    \* number of POST /llm/process requests handled so far
    llmCalls,
    \* history: send_message calls, one after the other up to the last
    \* finished one, that each ended with its retries exhausted
    exhausted,
    \* llm-service send_message: "idle", "request" (the attempt about to run),
    \* "sleep" (awaiting asyncio.sleep) or "done"
    lsPc,
    \* _send_with_retry's retry_count of the attempt at hand
    retry_count,
    \* the kwargs dict send_message builds and every attempt is handed
    kwargs,
    \* history: the model and the parameters the LLM client was invoked with,
    \* and how the attempt ended, one entry per invocation
    client_calls,
    \* the delays the llm-service has slept so far, in order
    lsSleeps,
    \* what the llm-service send_message returned or raised
    lsResult,
    \* RateLimitMiddleware.clients: client IP -> its list of timestamps
    clients,
    \* the clock read by time.time() in the llm-service
    mwNow,
    \* the last step taken on the middleware and what became of the request
    mwEv,
    \* history: client IP -> the instants of all its forwarded requests
    forwarded

cbVars == <<state, failure_count, last_failure_time, failure_threshold,
            recovery_timeout, now, pc, probe, calls, cbEv, consecFails, depFailed>>

rlVars == <<user_requests, rlNow, rlEv, admitted>>

llmVars == <<llmPc, attempt, requests, sleeps, outcomes, llmResult,
             llmCalls, exhausted>>

lsVars == <<lsPc, retry_count, kwargs, client_calls, lsSleeps, lsResult>>

mwVars == <<clients, mwNow, mwEv, forwarded>>

vars == <<cbVars, rlVars, llmVars, lsVars, mwVars>>

\* ------------------------------------------------- ServiceStatus (l.26-30)
CLOSED == "closed"
OPEN == "open"
HALF_OPEN == "half_open"
ServiceStatus == {CLOSED, OPEN, HALF_OPEN}

\* Python's None for last_failure_time; every real instant is >= 0.
None == 0 - 1

Tasks == 1..NumTasks

\* What the Auth service (or the transport) answers to GET /api/v1/auth/validate.
\* "200_bad" is a 200 whose JSON body carries no user identifier, "200_nojson"
\* a 200 whose body response.json() cannot decode.
Responses ==
    {"200", "200_bad", "200_nojson", "401", "403", "500", "connect_error", "timeout"}

\* The token argument of validate_token: empty or not.
Tokens == {"", "jwt"}

\* ----------------------------------------------------------- CircuitBreaker

\* Faulty variant of _should_attempt_reset: the comparison admits equality.
should_attempt_reset_at_timeout ==
    IF last_failure_time = None
    THEN TRUE
    ELSE now - last_failure_time >= recovery_timeout

\* CircuitBreaker._should_attempt_reset
should_attempt_reset ==
    IF last_failure_time = None
    THEN TRUE
    ELSE now - last_failure_time > recovery_timeout

\* Faulty variant of _on_success: only a success of a probe resets the breaker.
on_success_probe_only ==
    /\ failure_count' = IF state = HALF_OPEN THEN 0 ELSE failure_count
    /\ state' = IF state = HALF_OPEN THEN CLOSED ELSE state
    /\ UNCHANGED last_failure_time

\* CircuitBreaker._on_success
on_success ==
    /\ failure_count' = 0
    /\ state' = CLOSED
    /\ UNCHANGED last_failure_time

\* Faulty variant of _on_failure: the breaker opens one failure late.
on_failure_late ==
    /\ failure_count' = failure_count + 1
    /\ last_failure_time' = now
    /\ state' = IF failure_count + 1 > failure_threshold THEN OPEN ELSE state

\* Faulty variant of _on_failure: the breaker opens only when the count is
\* exactly the threshold.
on_failure_exact ==
    /\ failure_count' = failure_count + 1
    /\ last_failure_time' = now
    /\ state' = IF failure_count + 1 = failure_threshold THEN OPEN ELSE state

\* CircuitBreaker._on_failure
on_failure ==
    /\ failure_count' = failure_count + 1
    /\ last_failure_time' = now
    /\ state' = IF failure_count + 1 >= failure_threshold THEN OPEN ELSE state

\* AuthServiceClient.validate_token._make_request after the response (or the
\* transport error) has arrived: what it returns or raises.
make_request(resp) ==
    CASE resp = "connect_error" -> [raised |-> TRUE, exc |-> "ConnectError"]
      [] resp = "timeout" -> [raised |-> TRUE, exc |-> "TimeoutException"]
      [] resp = "401" -> [raised |-> TRUE, exc |-> "SecurityException:INVALID_TOKEN"]
      [] resp = "403" ->
            [raised |-> TRUE, exc |-> "SecurityException:INSUFFICIENT_PERMISSIONS"]
      [] resp = "500" ->
            [raised |-> TRUE, exc |-> "ExternalServiceException:EXTERNAL_SERVICE_ERROR"]
      [] resp = "200_nojson" -> [raised |-> TRUE, exc |-> "ValueError"]
      [] OTHER -> [raised |-> FALSE, exc |-> "none"]

\* AuthServiceClient.validate_token's except clauses: the error its caller sees
\* for an exception that came out of circuit_breaker.call.
translate_error(exc) ==
    CASE exc = "ConnectError" -> "ExternalServiceException:SERVICE_UNAVAILABLE"
      [] exc = "TimeoutException" -> "ExternalServiceException:SERVICE_TIMEOUT"
      [] exc = "ValueError" -> "ExternalServiceException:EXTERNAL_SERVICE_ERROR"
      [] OTHER -> exc

\* AuthServiceClient.validate_token's check of a result the breaker returned.
check_result(resp) ==
    IF resp = "200_bad"
    THEN [kind |-> "raise", err |-> "ExternalServiceException:INVALID_RESPONSE_FORMAT"]
    ELSE [kind |-> "return", err |-> "none"]

\* The error CircuitBreaker.call raises when it rejects a call (l.55-59).
CircuitOpenError == "ExternalServiceException:SERVICE_UNAVAILABLE"

\* Faulty variant of the re-raise: the breaker wraps what the operation raised.
call_raise_wrapped(exc) == "ExternalServiceException:EXTERNAL_SERVICE_ERROR"

\* The bare `raise` of CircuitBreaker.call's except clause (l.65-67): the
\* error its caller gets for the error exc the operation raised.
call_raise(exc) == exc

\* Faulty variant of the gate: a rejected call is recorded as a failure.
call_begin_reject_counts(t) ==
    /\ calls' = calls + 1
    /\ IF state = OPEN /\ ~should_attempt_reset
       THEN /\ cbEv' = [kind |-> "reject", task |-> t,
                        err |-> CircuitOpenError,
                        was |-> state, resp |-> "none",
                        exc |-> CircuitOpenError, value |-> "none", op |-> "none"]
            /\ failure_count' = failure_count + 1
            /\ last_failure_time' = now
            /\ UNCHANGED <<state, pc, probe>>
       ELSE /\ state' = IF state = OPEN THEN HALF_OPEN ELSE state
            /\ pc' = [pc EXCEPT ![t] = "awaiting"]
            /\ probe' = [probe EXCEPT ![t] = (state' = HALF_OPEN)]
            /\ cbEv' = [kind |-> "invoke", task |-> t, err |-> "none",
                        was |-> state, resp |-> "none",
                        exc |-> "none", value |-> "none", op |-> "none"]
            /\ UNCHANGED <<failure_count, last_failure_time>>
    /\ UNCHANGED <<consecFails, depFailed>>

\* CircuitBreaker.call up to the await of the wrapped operation: the gate.
call_begin(t) ==
    /\ calls' = calls + 1
    /\ IF state = OPEN /\ ~should_attempt_reset
       THEN /\ cbEv' = [kind |-> "reject", task |-> t,
                        err |-> CircuitOpenError,
                        was |-> state, resp |-> "none",
                        exc |-> CircuitOpenError, value |-> "none", op |-> "none"]
            /\ UNCHANGED <<state, pc, probe>>
       ELSE /\ state' = IF state = OPEN THEN HALF_OPEN ELSE state
            /\ pc' = [pc EXCEPT ![t] = "awaiting"]
            /\ probe' = [probe EXCEPT ![t] = (state' = HALF_OPEN)]
            /\ cbEv' = [kind |-> "invoke", task |-> t, err |-> "none",
                        was |-> state, resp |-> "none",
                        exc |-> "none", value |-> "none", op |-> "none"]
    /\ UNCHANGED <<failure_count, last_failure_time, consecFails, depFailed>>

\* CircuitBreaker.call from the operation's completion on: record the outcome
\* and hand the result or the error to validate_token.
call_end(t, resp) ==
    LET r == make_request(resp) IN
    /\ IF r.raised THEN on_failure ELSE on_success
    /\ consecFails' = IF r.raised THEN consecFails + 1 ELSE 0
    /\ depFailed' = (depFailed \/ (r.raised /\ resp \notin {"401", "403"}))
    /\ cbEv' = IF r.raised
               THEN [kind |-> "raise", task |-> t,
                     err |-> translate_error(call_raise(r.exc)),
                     was |-> state, resp |-> resp,
                     exc |-> call_raise(r.exc), value |-> "none",
                     op |-> "validate_token"]
               ELSE [kind |-> check_result(resp).kind, task |-> t,
                     err |-> check_result(resp).err,
                     was |-> state, resp |-> resp,
                     exc |-> "none", value |-> "json",
                     op |-> "validate_token"]
    /\ pc' = [pc EXCEPT ![t] = "idle"]
    /\ probe' = [probe EXCEPT ![t] = FALSE]
    /\ UNCHANGED calls

\* ------------------------------------------- AuthenticationMiddleware

\* The SecurityException errors validate_token can raise.
SecurityErrors ==
    {"SecurityException:AUTHENTICATION_REQUIRED", "SecurityException:INVALID_TOKEN",
     "SecurityException:INSUFFICIENT_PERMISSIONS"}

\* The ExternalServiceException errors validate_token can raise.
ExternalServiceErrors ==
    {"ExternalServiceException:SERVICE_UNAVAILABLE",
     "ExternalServiceException:SERVICE_TIMEOUT",
     "ExternalServiceException:EXTERNAL_SERVICE_ERROR",
     "ExternalServiceException:INVALID_RESPONSE_FORMAT"}

\* Faulty variant of _authenticate_request: without the clause that re-raises
\* ExternalServiceException, `except Exception` turns it into INVALID_TOKEN.
authenticate_request_all_invalid(err) ==
    IF err \in SecurityErrors THEN err ELSE "SecurityException:INVALID_TOKEN"

\* AuthenticationMiddleware._authenticate_request's except clauses: the error
\* dispatch sees for an error validate_token raised.
authenticate_request(err) ==
    IF err \in SecurityErrors \cup ExternalServiceErrors
    THEN err
    ELSE "SecurityException:INVALID_TOKEN"

\* AuthenticationMiddleware.dispatch for a request to a protected path that
\* carries a bearer token, given how validate_token ended: either the request
\* goes on to the route handler (call_next), or an HTTPException is raised
\* with the status_code given; SecurityException carries status 400.
dispatch(kind, err) ==
    IF kind = "return"
    THEN [call_next |-> TRUE, status_code |-> 0]
    ELSE IF authenticate_request(err) \in SecurityErrors
    THEN [call_next |-> FALSE, status_code |-> 400]
    ELSE [call_next |-> FALSE, status_code |-> 503]

\* ------------------------------------------------- CharactersServiceClient

\* The two methods of the client that go through its breaker.
CharacterOps == {"validate_character_exists", "get_character_info"}

\* What the Characters service (or the transport) answers to
\* GET /api/v1/characters/{character_id}; "200_nojson" is a 200 whose body
\* response.json() cannot decode.
CharacterResponses == {"200", "200_nojson", "404", "500", "connect_error", "timeout"}

\* Faulty variant of the two _make_request closures: the test for >= 400 comes
\* first, so a 404 is raised as a service error.
characters_make_request_404_error(op, resp) ==
    CASE resp = "connect_error" ->
            [raised |-> TRUE, exc |-> "ConnectError", value |-> "none"]
      [] resp = "timeout" ->
            [raised |-> TRUE, exc |-> "TimeoutException", value |-> "none"]
      [] resp \in {"404", "500"} ->
            [raised |-> TRUE,
             exc |-> "ExternalServiceException:EXTERNAL_SERVICE_ERROR",
             value |-> "none"]
      [] resp = "200_nojson" /\ op = "get_character_info" ->
            [raised |-> TRUE, exc |-> "ValueError", value |-> "none"]
      [] OTHER ->
            [raised |-> FALSE, exc |-> "none",
             value |-> IF op = "validate_character_exists" THEN "True" ELSE "json"]

\* The _make_request closures of validate_character_exists (l.296-313) and
\* get_character_info (l.356-373) after the answer has arrived: what they
\* return or raise.
characters_make_request(op, resp) ==
    CASE resp = "connect_error" ->
            [raised |-> TRUE, exc |-> "ConnectError", value |-> "none"]
      [] resp = "timeout" ->
            [raised |-> TRUE, exc |-> "TimeoutException", value |-> "none"]
      [] resp = "404" ->
            [raised |-> FALSE, exc |-> "none",
             value |-> IF op = "validate_character_exists" THEN "False" ELSE "None"]
      [] resp = "500" ->
            [raised |-> TRUE,
             exc |-> "ExternalServiceException:EXTERNAL_SERVICE_ERROR",
             value |-> "none"]
      [] resp = "200_nojson" /\ op = "get_character_info" ->
            [raised |-> TRUE, exc |-> "ValueError", value |-> "none"]
      [] OTHER ->
            [raised |-> FALSE, exc |-> "none",
             value |-> IF op = "validate_character_exists" THEN "True" ELSE "json"]

\* The except clauses of the two methods: the error their caller sees for an
\* exception that came out of circuit_breaker.call.
characters_translate_error(exc) ==
    CASE exc \in ExternalServiceErrors -> exc
      [] exc = "ConnectError" -> "ExternalServiceException:SERVICE_UNAVAILABLE"
      [] exc = "TimeoutException" -> "ExternalServiceException:SERVICE_TIMEOUT"
      [] OTHER -> "ExternalServiceException:EXTERNAL_SERVICE_ERROR"

\* CircuitBreaker.call of the characters client from the operation's
\* completion on: record the outcome, hand the result or the error on.
characters_call_end(t, op, resp) ==
    LET r == characters_make_request(op, resp) IN
    /\ IF r.raised THEN on_failure ELSE on_success
    /\ consecFails' = IF r.raised THEN consecFails + 1 ELSE 0
    /\ depFailed' = (depFailed \/ r.raised)
    /\ cbEv' = IF r.raised
               THEN [kind |-> "raise", task |-> t,
                     err |-> characters_translate_error(call_raise(r.exc)),
                     was |-> state, resp |-> resp,
                     exc |-> call_raise(r.exc), value |-> "none", op |-> op]
               ELSE [kind |-> "return", task |-> t, err |-> "none",
                     was |-> state, resp |-> resp,
                     exc |-> "none", value |-> r.value, op |-> op]
    /\ pc' = [pc EXCEPT ![t] = "idle"]
    /\ probe' = [probe EXCEPT ![t] = FALSE]
    /\ UNCHANGED calls

\* A task calls validate_character_exists or get_character_info and runs to
\* the await of the HTTP request, or is rejected by the breaker.
CharactersCallBegin(t) ==
    /\ pc[t] = "idle"
    /\ calls < MaxCalls
    /\ call_begin(t)
    /\ UNCHANGED <<failure_threshold, recovery_timeout, now>>
    /\ UNCHANGED <<rlVars, llmVars, lsVars, mwVars>>

\* The awaited HTTP request of task t completes with some answer. Both
\* methods run the same statements up to here, so which of them the task is
\* in is told apart only now.
CharactersCallEnd(t) ==
    /\ pc[t] = "awaiting"
    /\ \E op \in CharacterOps : \E resp \in CharacterResponses :
          characters_call_end(t, op, resp)
    /\ UNCHANGED <<failure_threshold, recovery_timeout, now>>
    /\ UNCHANGED <<rlVars, llmVars, lsVars, mwVars>>

\* --------------------------------------------------------------- /health

\* `circuit_breaker.state == "closed"` in health_check: state is a member of
\* ServiceStatus, a plain Enum (no str mix-in), and such a member is equal to
\* no str, whatever its value.
state_eq_str(member, text) == FALSE

\* health_check's entry for one dependency with a circuit breaker (l.96-107).
dependency_health(breaker_state) ==
    IF state_eq_str(breaker_state, "closed") THEN "healthy" ELSE "degraded"

\* ------------------------------------------------------- breaker: actions

\* A task calls AuthServiceClient.validate_token(token) and runs to the await
\* of the HTTP request (or to the error raised before it).
ValidateTokenBegin(t) ==
    /\ pc[t] = "idle"
    /\ calls < MaxCalls
    /\ \E token \in Tokens :
          IF token = ""
          THEN /\ cbEv' = [kind |-> "raise", task |-> t,
                           err |-> "SecurityException:AUTHENTICATION_REQUIRED",
                           was |-> state, resp |-> "none",
                           exc |-> "none", value |-> "none", op |-> "none"]
               /\ UNCHANGED <<state, failure_count, last_failure_time, pc, probe,
                              calls, consecFails, depFailed>>
          ELSE call_begin(t)
    /\ UNCHANGED <<failure_threshold, recovery_timeout, now>>
    /\ UNCHANGED <<rlVars, llmVars, lsVars, mwVars>>

\* The awaited HTTP request of task t completes with some answer.
ValidateTokenEnd(t) ==
    /\ pc[t] = "awaiting"
    /\ \E resp \in Responses : call_end(t, resp)
    /\ UNCHANGED <<failure_threshold, recovery_timeout, now>>
    /\ UNCHANGED <<rlVars, llmVars, lsVars, mwVars>>

\* Time passes.
Tick ==
    /\ now < MaxTime
    /\ now' = now + 1
    /\ cbEv' = [kind |-> "tick", task |-> 0, err |-> "none",
                was |-> state, resp |-> "none",
                exc |-> "none", value |-> "none", op |-> "none"]
    /\ UNCHANGED <<state, failure_count, last_failure_time, failure_threshold,
                   recovery_timeout, pc, probe, calls, consecFails, depFailed>>
    /\ UNCHANGED <<rlVars, llmVars, lsVars, mwVars>>

\* CircuitBreaker.__init__ (l.36-47), the clock at 0, no call made yet.
BreakerInit(thresholds, timeouts) ==
    /\ failure_threshold \in thresholds
    /\ recovery_timeout \in timeouts
    /\ failure_count = 0
    /\ last_failure_time = None
    /\ state = CLOSED
    /\ now = 0
    /\ pc = [t \in Tasks |-> "idle"]
    /\ probe = [t \in Tasks |-> FALSE]
    /\ calls = 0
    /\ cbEv = [kind |-> "init", task |-> 0, err |-> "none",
               was |-> CLOSED, resp |-> "none",
               exc |-> "none", value |-> "none", op |-> "none"]
    /\ consecFails = 0
    /\ depFailed = FALSE

\* ------------------------------------------------------ InMemoryRateLimiter

\* Client addresses (request.client.host) seen by the llm-service.
ClientIps == {"10.0.0.1", "10.0.0.2"}

\* Caller identities (user_id).
Users == {"alice", "bob"}

\* The entry check_rate_limit creates for an identity it has not seen.
NewEntry == [minute |-> <<>>, hour |-> <<>>, day |-> <<>>]

\* Faulty variant of the limit comparison: one request too many is let through.
limit_reached_late(count, limit) == count > limit

\* The comparison of a window's count with its limit.
limit_reached(count, limit) == count >= limit

\* Faulty variant of the pruning: a request exactly one window old is still kept.
keep_recent_inclusive(reqs, ago) == SelectSeq(reqs, LAMBDA req_time : req_time >= ago)

\* The list comprehension of _clean_old_requests: the requests kept for a
\* window that began at `ago`.
keep_recent(reqs, ago) == SelectSeq(reqs, LAMBDA req_time : req_time > ago)

\* InMemoryRateLimiter._clean_old_requests
clean_old_requests(user_data, current_time) ==
    [minute |-> keep_recent(user_data.minute, current_time - MinuteLen),
     hour |-> keep_recent(user_data.hour, current_time - HourLen),
     day |-> keep_recent(user_data.day, current_time - DayLen)]

\* Faulty variant of the store: every known identity shares the one dict.
SetEntry_shared(user_id, user_data) ==
    [u \in DOMAIN user_requests \cup {user_id} |-> user_data]

\* The dict with key user_id set to user_data.
SetEntry(user_id, user_data) ==
    [u \in DOMAIN user_requests \cup {user_id} |->
        IF u = user_id THEN user_data ELSE user_requests[u]]

\* The pruning took at least one timestamp out of the stored lists.
Dropped(entry, user_data) ==
    \/ Len(user_data.minute) < Len(entry.minute)
    \/ Len(user_data.hour) < Len(entry.hour)
    \/ Len(user_data.day) < Len(entry.day)

\* What a check or an info call hands to its caller; with it, for the
\* record, whether the call pruned a stored timestamp (dropped) and whether it
\* came right after an info call of the same identity that did (after_info).
RlEvent(kind, user_id, limit_type, limit, current, reset_time, remaining, dropped) ==
    [kind |-> kind, user |-> user_id,
     code |-> IF kind = "reject" THEN "RATE_LIMIT_EXCEEDED" ELSE "none",
     limit_type |-> limit_type, limit |-> limit,
     current |-> current, reset_time |-> reset_time, remaining |-> remaining,
     dropped |-> dropped,
     after_info |-> /\ kind \in {"admit", "reject"}
                    /\ rlEv.kind = "info"
                    /\ rlEv.user = user_id
                    /\ rlEv.dropped]

\* RateLimitExceeded as check_rate_limit raises it.
RateLimitExceeded(user_id, limit_type, limit, current, reset_time, dropped) ==
    RlEvent("reject", user_id, limit_type, limit, current, reset_time, <<>>, dropped)

\* Faulty variant of the recording: only the minute window gets the request.
record_request_minute_only(user_data, current_time) ==
    [minute |-> Append(user_data.minute, current_time),
     hour |-> user_data.hour,
     day |-> user_data.day]

\* The three appends of check_rate_limit (l.72-75).
record_request(user_data, current_time) ==
    [minute |-> Append(user_data.minute, current_time),
     hour |-> Append(user_data.hour, current_time),
     day |-> Append(user_data.day, current_time)]

\* InMemoryRateLimiter.check_rate_limit: it holds no await, so it runs from
\* its first statement to its return or raise as one step.
check_rate_limit(user_id) ==
    LET current_time == rlNow
        entry == IF user_id \in DOMAIN user_requests
                 THEN user_requests[user_id] ELSE NewEntry
        user_data == clean_old_requests(entry, current_time)
        minute_count == Len(user_data.minute)
        hour_count == Len(user_data.hour)
        day_count == Len(user_data.day)
        dropped == Dropped(entry, user_data)
    IN
    IF limit_reached(minute_count, max_messages_per_minute)
    THEN /\ rlEv' = RateLimitExceeded(user_id, "messages_per_minute",
                        max_messages_per_minute, minute_count,
                        current_time + MinuteLen, dropped)
         /\ user_requests' = SetEntry(user_id, user_data)
         /\ UNCHANGED admitted
    ELSE IF limit_reached(hour_count, max_messages_per_hour)
    THEN /\ rlEv' = RateLimitExceeded(user_id, "messages_per_hour",
                        max_messages_per_hour, hour_count,
                        current_time + HourLen, dropped)
         /\ user_requests' = SetEntry(user_id, user_data)
         /\ UNCHANGED admitted
    ELSE IF limit_reached(day_count, max_messages_per_day)
    THEN /\ rlEv' = RateLimitExceeded(user_id, "messages_per_day",
                        max_messages_per_day, day_count,
                        current_time + DayLen, dropped)
         /\ user_requests' = SetEntry(user_id, user_data)
         /\ UNCHANGED admitted
    ELSE /\ user_requests' = SetEntry(user_id, record_request(user_data, current_time))
         /\ admitted' = [admitted EXCEPT ![user_id] = Append(@, current_time)]
         /\ rlEv' = RlEvent("admit", user_id, "none", 0, minute_count + 1, 0, <<>>,
                            dropped)

Max0(x) == IF x > 0 THEN x ELSE 0

\* What get_rate_limit_info returns for the lists it counted.
RemainingOf(user_data) ==
    <<Max0(max_messages_per_minute - Len(user_data.minute)),
      Max0(max_messages_per_hour - Len(user_data.hour)),
      Max0(max_messages_per_day - Len(user_data.day))>>

\* Faulty variant of get_rate_limit_info: an identity it has not seen gets an
\* entry, as in check_rate_limit.
get_rate_limit_info_creating(user_id) ==
    LET current_time == rlNow
        entry == IF user_id \in DOMAIN user_requests
                 THEN user_requests[user_id] ELSE NewEntry
        user_data == clean_old_requests(entry, current_time)
    IN
    /\ user_requests' = SetEntry(user_id, user_data)
    /\ rlEv' = RlEvent("info", user_id, "none", 0, 0, 0, RemainingOf(user_data),
                       Dropped(entry, user_data))
    /\ UNCHANGED admitted

\* Faulty variant of get_rate_limit_info: asking for the quota uses one up in
\* the minute window.
get_rate_limit_info_counting(user_id) ==
    LET current_time == rlNow IN
    IF user_id \notin DOMAIN user_requests
    THEN /\ rlEv' = RlEvent("info", user_id, "none", 0, 0, 0, RemainingOf(NewEntry),
                            FALSE)
         /\ UNCHANGED <<user_requests, admitted>>
    ELSE LET entry == user_requests[user_id]
             user_data == clean_old_requests(entry, current_time)
         IN
         /\ user_requests' = SetEntry(user_id,
                [user_data EXCEPT !.minute = Append(@, current_time)])
         /\ rlEv' = RlEvent("info", user_id, "none", 0, 0, 0,
                            RemainingOf(user_data), Dropped(entry, user_data))
         /\ UNCHANGED admitted

\* InMemoryRateLimiter.get_rate_limit_info
get_rate_limit_info(user_id) ==
    LET current_time == rlNow IN
    IF user_id \notin DOMAIN user_requests
    THEN /\ rlEv' = RlEvent("info", user_id, "none", 0, 0, 0, RemainingOf(NewEntry),
                            FALSE)
         /\ UNCHANGED <<user_requests, admitted>>
    ELSE LET entry == user_requests[user_id]
             user_data == clean_old_requests(entry, current_time)
         IN
         /\ user_requests' = SetEntry(user_id, user_data)
         /\ rlEv' = RlEvent("info", user_id, "none", 0, 0, 0,
                            RemainingOf(user_data), Dropped(entry, user_data))
         /\ UNCHANGED admitted

\* -------------------------------------------------- rate limiter: actions

\* A request of identity u reaches check_rate_limit.
CheckRateLimit(u) ==
    /\ check_rate_limit(u)
    /\ UNCHANGED <<rlNow, cbVars, llmVars, lsVars, mwVars>>

\* Identity u asks for its remaining quota.
GetRateLimitInfo(u) ==
    /\ get_rate_limit_info(u)
    /\ UNCHANGED <<rlNow, cbVars, llmVars, lsVars, mwVars>>

\* Time passes in the message-service.
RlTick ==
    /\ rlNow < RlMaxTime
    /\ rlNow' = rlNow + 1
    /\ rlEv' = RlEvent("tick", "none", "none", 0, 0, 0, <<>>, FALSE)
    /\ UNCHANGED <<user_requests, admitted, cbVars, llmVars, lsVars, mwVars>>

\* InMemoryRateLimiter.__init__: no identity is known.
LimiterInit ==
    /\ user_requests = [u \in {} |-> NewEntry]
    /\ rlNow = 0
    /\ rlEv = [kind |-> "init", user |-> "none", code |-> "none",
               limit_type |-> "none", limit |-> 0, current |-> 0,
               reset_time |-> 0, remaining |-> <<>>,
               dropped |-> FALSE, after_info |-> FALSE]
    /\ admitted = [u \in Users |-> <<>>]


\* ------------------------------------------ message-service LLMService

\* How one _make_request can end: a decoded response, httpx.TimeoutException,
\* httpx.HTTPStatusError with a status, httpx.ConnectError, or any other
\* exception (such as a response body without the "response" key).
\* send_message raises LLMError and TimeoutError, which it imports from
\* app.core.exceptions; that file defines neither, so the errors are modelled
\* by the class and error_code each raise statement names.
HttpErrorStatuses == {"400", "401", "408", "422", "429", "500", "503"}
Outcomes == {"ok", "timeout", "connect_error", "other_exception"} \cup HttpErrorStatuses

\* 2 ** n
RECURSIVE Pow2(_)
Pow2(n) == IF n = 0 THEN 1 ELSE 2 * Pow2(n - 1)

\* Faulty variant of the delay: linear instead of exponential backoff.
backoff_delay_linear(n) == base_delay * (n + 1)

\* delay = self.base_delay * (2 ** attempt)
backoff_delay(n) == base_delay * Pow2(n)

\* Faulty variant of the except clauses: every HTTP status error is retried the way
\* a 429 is.
handle_failure_retry_status(outcome, n) ==
    CASE outcome = "timeout" ->
            IF n < max_retries
            THEN [do |-> "sleep", err |-> "none"]
            ELSE [do |-> "raise", err |-> "TimeoutError"]
      [] outcome \in HttpErrorStatuses ->
            IF n < max_retries
            THEN [do |-> "sleep", err |-> "none"]
            ELSE [do |-> "raise", err |-> "LLMError:LLM_RATE_LIMIT_ERROR"]
      [] outcome = "connect_error" ->
            [do |-> "raise", err |-> "LLMError:LLM_CONNECTION_ERROR"]
      [] OTHER -> [do |-> "raise", err |-> "LLMError:LLM_UNEXPECTED_ERROR"]

\* Faulty variant of the except clauses: a timeout and a 429 are retried after
\* the last attempt too.
handle_failure_retry_last(outcome, n) ==
    CASE outcome \in {"timeout", "429"} -> [do |-> "sleep", err |-> "none"]
      [] outcome = "408" ->
            IF n < max_retries
            THEN [do |-> "continue", err |-> "none"]
            ELSE [do |-> "raise", err |-> "LLMError:LLM_TIMEOUT"]
      [] outcome \in HttpErrorStatuses \ {"429", "408"} ->
            [do |-> "raise", err |-> "LLMError:LLM_SERVICE_ERROR"]
      [] outcome = "connect_error" ->
            [do |-> "raise", err |-> "LLMError:LLM_CONNECTION_ERROR"]
      [] OTHER -> [do |-> "raise", err |-> "LLMError:LLM_UNEXPECTED_ERROR"]

\* The except clauses of send_message's retry loop: what the loop does after
\* attempt n (0-based) failed with `outcome`.
handle_failure(outcome, n) ==
    CASE outcome = "timeout" ->
            IF n < max_retries
            THEN [do |-> "sleep", err |-> "none"]
            ELSE [do |-> "raise", err |-> "TimeoutError"]
      [] outcome = "429" ->
            IF n < max_retries
            THEN [do |-> "sleep", err |-> "none"]
            ELSE [do |-> "raise", err |-> "LLMError:LLM_RATE_LIMIT_ERROR"]
      [] outcome = "408" ->
            IF n < max_retries
            THEN [do |-> "continue", err |-> "none"]
            ELSE [do |-> "raise", err |-> "LLMError:LLM_TIMEOUT"]
      [] outcome \in HttpErrorStatuses \ {"429", "408"} ->
            [do |-> "raise", err |-> "LLMError:LLM_SERVICE_ERROR"]
      [] outcome = "connect_error" ->
            [do |-> "raise", err |-> "LLMError:LLM_CONNECTION_ERROR"]
      [] OTHER -> [do |-> "raise", err |-> "LLMError:LLM_UNEXPECTED_ERROR"]

\* ------------------------------------------------- LLM client: actions

\* `continue` in `for attempt in range(self.max_retries + 1)`: the next
\* attempt's request is made, or, when the range is used up, the loop ends and
\* the statement after it raises LLM_MAX_RETRIES_EXCEEDED.
next_iteration ==
    IF attempt + 1 < max_retries + 1
    THEN /\ llmPc' = "request"
         /\ attempt' = attempt + 1
         /\ requests' = requests + 1
         /\ UNCHANGED llmResult
    ELSE /\ llmPc' = "done"
         /\ llmResult' = "LLMError:LLM_MAX_RETRIES_EXCEEDED"
         /\ UNCHANGED <<attempt, requests>>

\* send_message is called with n_messages messages and runs to the await
\* of its first request, or to the ValidationError raised before the loop.
SendMessage ==
    /\ llmPc = "idle"
    /\ \E n_messages \in {0, 1, MaxMessages + 1} :
          IF n_messages = 0 \/ n_messages > MaxMessages
          THEN /\ llmPc' = "done"
               /\ llmResult' = "ValidationError"
               /\ UNCHANGED <<attempt, requests>>
          ELSE /\ llmPc' = "request"
               /\ attempt' = 0
               /\ requests' = 1
               /\ UNCHANGED llmResult
    /\ UNCHANGED <<sleeps, outcomes, llmCalls, exhausted, cbVars, rlVars, lsVars, mwVars>>

\* The awaited _make_request of the current attempt ends with some outcome;
\* the loop body runs on to the next suspension point or to the end of the call.
RequestCompletes ==
    /\ llmPc = "request"
    /\ \E outcome \in Outcomes :
          /\ outcomes' = Append(outcomes, outcome)
          /\ IF outcome = "ok"
             THEN /\ llmPc' = "done"
                  /\ llmResult' = "response"
                  /\ UNCHANGED <<attempt, requests, sleeps>>
             ELSE LET h == handle_failure(outcome, attempt) IN
                  CASE h.do = "sleep" ->
                          /\ llmPc' = "sleep"
                          /\ sleeps' = Append(sleeps, backoff_delay(attempt))
                          /\ UNCHANGED <<attempt, requests, llmResult>>
                    [] h.do = "continue" ->
                          next_iteration /\ UNCHANGED sleeps
                    [] OTHER ->
                          /\ llmPc' = "done"
                          /\ llmResult' = h.err
                          /\ UNCHANGED <<attempt, requests, sleeps>>
    /\ UNCHANGED <<llmCalls, exhausted, cbVars, rlVars, lsVars, mwVars>>

\* asyncio.sleep(delay) returns; `continue` goes on with the loop.
SleepEnds ==
    /\ llmPc = "sleep"
    /\ next_iteration
    /\ UNCHANGED <<sleeps, outcomes, llmCalls, exhausted, cbVars, rlVars, lsVars, mwVars>>

\* The errors with which send_message gives up after its last retry.
ExhaustedErrors ==
    {"TimeoutError", "LLMError:LLM_RATE_LIMIT_ERROR", "LLMError:LLM_TIMEOUT"}

\* The next POST /llm/process request: the endpoint constructs a
\* MessageService, whose __init__ constructs the LLMService of that request;
\* nothing of the request before it is carried over.
NewMessageService ==
    /\ llmPc = "done"
    /\ llmCalls < MaxLlmCalls
    /\ llmCalls' = llmCalls + 1
    /\ exhausted' = IF llmResult \in ExhaustedErrors THEN exhausted + 1 ELSE 0
    /\ llmPc' = "idle"
    /\ attempt' = 0
    /\ requests' = 0
    /\ sleeps' = <<>>
    /\ outcomes' = <<>>
    /\ llmResult' = "none"
    /\ UNCHANGED <<cbVars, rlVars, lsVars, mwVars>>

\* MessageService.process_message_with_llm from the send_message call on:
\* what it returns for what send_message returned or raised. LLMError is
\* caught by its own clause, every other exception by `except Exception`.
process_message_with_llm(result) ==
    CASE result = "response" ->
            [raised |-> "none", assistant_message |-> TRUE, error |-> "none"]
      [] result \in {"LLMError:LLM_RATE_LIMIT_ERROR", "LLMError:LLM_TIMEOUT",
                     "LLMError:LLM_SERVICE_ERROR", "LLMError:LLM_CONNECTION_ERROR",
                     "LLMError:LLM_UNEXPECTED_ERROR",
                     "LLMError:LLM_MAX_RETRIES_EXCEEDED"} ->
            [raised |-> "none", assistant_message |-> FALSE, error |-> result]
      [] OTHER ->
            [raised |-> "none", assistant_message |-> FALSE,
             error |-> "PROCESSING_ERROR"]

\* The POST /llm/process endpoint (api/v1/llm.py, process_message_with_llm)
\* after the service's process_message_with_llm: the HTTP status of its answer
\* and the processing_status it reports.
api_process_message_with_llm(result) ==
    CASE result.raised = "RateLimitExceeded" ->
            [status |-> 429, processing_status |-> "none"]
      [] result.raised = "ValidationError" ->
            [status |-> 400, processing_status |-> "none"]
      [] result.raised = "LLMError" ->
            [status |-> 503, processing_status |-> "none"]
      [] result.raised = "none" ->
            [status |-> 200,
             processing_status |->
                 IF result.assistant_message THEN "completed" ELSE "failed"]
      [] OTHER -> [status |-> 500, processing_status |-> "none"]

\* No send_message call has been made.
LlmInit ==
    /\ llmPc = "idle"
    /\ attempt = 0
    /\ requests = 0
    /\ sleeps = <<>>
    /\ outcomes = <<>>
    /\ llmResult = "none"
    /\ llmCalls = 0
    /\ exhausted = 0

\* ------------------------------------------------- llm-service LLMService

\* settings.lm_studio_max_retries
lm_studio_max_retries == 3

\* settings.default_model, and a model a request may name instead.
default_model == "default-model"
RequestModels == {"", default_model, "test-model"}

\* How one attempt can end: the client returns a response, the client raises
\* some exception, the client raises asyncio.TimeoutError, or asyncio.wait_for
\* itself gives up with asyncio.TimeoutError.
LsOutcomes == {"ok", "client_error", "client_timeout", "wait_for_timeout"}

\* The kwargs send_message prepares (l.91-101) for a request that sets
\* temperature and max_tokens and names the model given.
build_kwargs(model) ==
    [k \in {"temperature", "max_tokens", "model"} |->
        CASE k = "temperature" -> "0.7"
          [] k = "max_tokens" -> "100"
          [] OTHER -> IF model # "" THEN model ELSE default_model]

\* kwargs.pop("model", settings.default_model): the value popped, and the
\* dict as the pop leaves it. The dict is the one object all attempts share.
pop_model(kw) ==
    [value |-> IF "model" \in DOMAIN kw THEN kw["model"] ELSE default_model,
     rest |-> [k \in DOMAIN kw \ {"model"} |-> kw[k]]]

\* llm-service _make_request's try/except (l.145-154): the error it raises for
\* the way the client call ended; asyncio.wait_for's own timeout is raised
\* outside of it.
ls_make_request(outcome) ==
    CASE outcome = "ok" -> "none"
      [] outcome = "wait_for_timeout" -> "asyncio.TimeoutError"
      [] OTHER -> "LLMModelError"

\* Faulty variant of the delay: the exponent is one too high.
retry_delay_doubled(n) == Pow2(n + 1)

\* retry_delay = 2 ** retry_count
retry_delay(n) == Pow2(n)

\* Faulty variant of the retry test: one retry more than configured.
may_retry_once_more(n) == n <= lm_studio_max_retries

\* retry_count < settings.lm_studio_max_retries
may_retry(n) == n < lm_studio_max_retries

\* llm-service send_message's except clauses (l.119-124): the error its
\* caller gets for the error that came out of _send_with_retry.
ls_send_message_error(exc) ==
    IF exc = "asyncio.TimeoutError" THEN "LLMTimeoutError" ELSE "LLMServiceError"

\* send_message of an initialized service, up to the first attempt.
LsSendMessage ==
    /\ lsPc = "idle"
    /\ \E model \in RequestModels : kwargs' = build_kwargs(model)
    /\ lsPc' = "request"
    /\ retry_count' = 0
    /\ UNCHANGED <<client_calls, lsSleeps, lsResult>>
    /\ UNCHANGED <<cbVars, rlVars, llmVars, mwVars>>

\* One attempt of _send_with_retry: _make_request pops the model, invokes the
\* client (a plain call, no await inside), and the attempt ends in some way;
\* then the except clause decides between sleeping and giving up.
LsAttempt ==
    /\ lsPc = "request"
    /\ \E outcome \in LsOutcomes :
          LET popped == pop_model(kwargs)
              exc == ls_make_request(outcome)
          IN  /\ kwargs' = popped.rest
              /\ client_calls' = Append(client_calls,
                     [model |-> popped.value, params |-> popped.rest,
                      outcome |-> outcome])
              /\ IF exc = "none"
                 THEN /\ lsPc' = "done"
                      /\ lsResult' = "response"
                      /\ UNCHANGED lsSleeps
                 ELSE IF may_retry(retry_count)
                 THEN /\ lsPc' = "sleep"
                      /\ lsSleeps' = Append(lsSleeps, retry_delay(retry_count))
                      /\ UNCHANGED lsResult
                 ELSE /\ lsPc' = "done"
                      /\ lsResult' = ls_send_message_error(exc)
                      /\ UNCHANGED lsSleeps
    /\ UNCHANGED retry_count
    /\ UNCHANGED <<cbVars, rlVars, llmVars, mwVars>>

\* asyncio.sleep(retry_delay) returns; _send_with_retry calls itself with
\* retry_count + 1 and the same kwargs object.
LsSleepEnds ==
    /\ lsPc = "sleep"
    /\ lsPc' = "request"
    /\ retry_count' = retry_count + 1
    /\ UNCHANGED <<kwargs, client_calls, lsSleeps, lsResult>>
    /\ UNCHANGED <<cbVars, rlVars, llmVars, mwVars>>

\* No send_message call has been made on the llm-service.
LsInit ==
    /\ lsPc = "idle"
    /\ retry_count = 0
    /\ kwargs = [k \in {} |-> ""]
    /\ client_calls = <<>>
    /\ lsSleeps = <<>>
    /\ lsResult = "none"

\* --------------------------------------- llm-service RateLimitMiddleware

\* Faulty variant of the pruning: a timestamp exactly one period old is kept.
mw_keep_recent_inclusive(timestamps, current_time) ==
    SelectSeq(timestamps, LAMBDA timestamp : current_time - timestamp <= MwPeriod)

\* [timestamp for timestamp in ... if current_time - timestamp < self.period]
mw_keep_recent(timestamps, current_time) ==
    SelectSeq(timestamps, LAMBDA timestamp : current_time - timestamp < MwPeriod)

\* "Limpiar entradas antiguas": the list of a known client is pruned, an
\* unknown client gets an empty list.
mw_clean(client_ip, current_time) ==
    IF client_ip \in DOMAIN clients
    THEN mw_keep_recent(clients[client_ip], current_time)
    ELSE <<>>

\* self.clients with the list of client_ip replaced.
mw_store(client_ip, timestamps) ==
    [ip \in DOMAIN clients \cup {client_ip} |->
        IF ip = client_ip THEN timestamps ELSE clients[ip]]

\* RateLimitMiddleware.dispatch, which has no suspension point before
\* call_next: prune, then raise HTTPException(429) at the limit, else record
\* current_time and forward the request.
MwDispatch(client_ip) ==
    LET current_time == mwNow
        kept == mw_clean(client_ip, current_time)
    IN  IF Len(kept) >= MwCalls
        THEN /\ clients' = mw_store(client_ip, kept)
             /\ mwEv' = [kind |-> "rejected", ip |-> client_ip, status_code |-> 429]
             /\ UNCHANGED <<forwarded, mwNow>>
        ELSE /\ clients' = mw_store(client_ip, Append(kept, current_time))
             /\ mwEv' = [kind |-> "forwarded", ip |-> client_ip, status_code |-> 0]
             /\ forwarded' = [forwarded EXCEPT
                                 ![client_ip] = Append(@, current_time)]
             /\ UNCHANGED mwNow

\* A request of some client reaches the middleware.
MwRequest ==
    /\ \E client_ip \in ClientIps : MwDispatch(client_ip)
    /\ UNCHANGED <<cbVars, rlVars, llmVars, lsVars>>

\* time.time() advances.
MwTick ==
    /\ mwNow < MwMaxTime
    /\ mwNow' = mwNow + 1
    /\ mwEv' = [kind |-> "tick", ip |-> "none", status_code |-> 0]
    /\ UNCHANGED <<clients, forwarded>>
    /\ UNCHANGED <<cbVars, rlVars, llmVars, lsVars>>

\* RateLimitMiddleware.__init__: no client is known.
MwInit ==
    /\ clients = [ip \in {} |-> <<>>]
    /\ mwNow = 0
    /\ mwEv = [kind |-> "init", ip |-> "none", status_code |-> 0]
    /\ forwarded = [ip \in ClientIps |-> <<>>]

InitCB ==
    /\ BreakerInit(1..MaxThreshold, 1..MaxRecovery)
    /\ LimiterInit /\ LlmInit /\ LsInit /\ MwInit

NextCB ==
    \/ \E t \in Tasks : ValidateTokenBegin(t)
    \/ \E t \in Tasks : ValidateTokenEnd(t)
    \/ Tick

\* ---------------------------------------------------------- specifications

\* The circuit breaker of the auth client under concurrent validate_token calls.
SpecCB == InitCB /\ [][NextCB]_vars

NextChar ==
    \/ \E t \in Tasks : CharactersCallBegin(t)
    \/ \E t \in Tasks : CharactersCallEnd(t)
    \/ Tick

\* The circuit breaker of the characters client under concurrent calls of
\* validate_character_exists and get_character_info.
SpecChar == InitCB /\ [][NextChar]_vars

\* The auth client's breaker as constructed (l.102-106), never called.
BreakerIdle == BreakerInit({DefaultFailureThreshold}, {DefaultRecoveryTimeout})

InitRL == LimiterInit /\ BreakerIdle /\ LlmInit /\ LsInit /\ MwInit

NextRL ==
    \/ \E u \in Users : CheckRateLimit(u)
    \/ \E u \in Users : GetRateLimitInfo(u)
    \/ RlTick

\* The rate limiter under interleaved requests of several identities.
SpecRL == InitRL /\ [][NextRL]_vars

InitLLM == LlmInit /\ BreakerIdle /\ LimiterInit /\ LsInit /\ MwInit

NextLLM ==
    \/ SendMessage
    \/ RequestCompletes
    \/ SleepEnds

\* One send_message call of the message-service LLM client.
SpecLLM == InitLLM /\ [][NextLLM]_vars

\* One send_message call in which every awaited request and every awaited
\* sleep comes to an end: the httpx client has a timeout, asyncio.sleep a
\* finite delay.
SpecLLMFair == SpecLLM /\ WF_vars(NextLLM)

NextLLMCalls ==
    \/ SendMessage
    \/ RequestCompletes
    \/ SleepEnds
    \/ NewMessageService

\* POST /llm/process requests one after the other, each with its send_message.
SpecLLMCalls == InitLLM /\ [][NextLLMCalls]_vars

InitMW == MwInit /\ BreakerIdle /\ LimiterInit /\ LlmInit /\ LsInit

NextMW ==
    \/ MwRequest
    \/ MwTick

\* The llm-service RateLimitMiddleware under requests of two clients.
SpecMW == InitMW /\ [][NextMW]_vars

InitLS == LsInit /\ BreakerIdle /\ LimiterInit /\ LlmInit /\ MwInit

NextLS ==
    \/ LsSendMessage
    \/ LsAttempt
    \/ LsSleepEnds

\* One send_message call of the llm-service.
SpecLS == InitLS /\ [][NextLS]_vars

\* ------------------------------------------------- breaker: observations

\* The step is a CircuitBreaker.call invocation (its gate ran).
IsCallStep == calls' = calls + 1

\* The call of this step was rejected with the circuit-open error and the
\* wrapped operation was not invoked: no task started to await.
RejectedStep ==
    /\ cbEv'.kind = "reject"
    /\ cbEv'.err = "ExternalServiceException:SERVICE_UNAVAILABLE"
    /\ pc' = pc

\* The call of this step invoked the wrapped operation.
InvokedStep ==
    /\ cbEv'.kind = "invoke"
    /\ pc[cbEv'.task] = "idle"
    /\ pc'[cbEv'.task] = "awaiting"

\* The step recorded the failure of an operation.
IsFailureStep == consecFails' = consecFails + 1

\* Tasks whose in-flight operation was invoked with the breaker HALF_OPEN.
ProbesInFlight == {t \in Tasks : pc[t] = "awaiting" /\ probe[t]}

\* ------------------------------------------------------- breaker: claims

\* C1: the failure that makes failure_threshold consecutive failed operations
\* (no success in between) leaves the breaker OPEN, and a call made after
\* them while less than recovery_timeout has passed since the last failure is
\* rejected with SERVICE_UNAVAILABLE without invoking the operation.
C1_OpensAfterThreshold ==
    [][ /\ (IsFailureStep /\ consecFails' >= failure_threshold) => state' = OPEN
        /\ (/\ IsCallStep
            /\ consecFails >= failure_threshold
            /\ now - last_failure_time < recovery_timeout) => RejectedStep ]_vars

\* C1 witness: with a threshold above 1, a call has just been rejected after
\* failure_threshold consecutive failures, before the recovery timeout.
C1_Witness ==
    /\ failure_threshold = MaxThreshold
    /\ consecFails = failure_threshold
    /\ cbEv.kind = "reject"
    /\ now - last_failure_time < recovery_timeout
    /\ state = OPEN

\* C2: at most one operation is in flight as a HalfOpen probe of the breaker.
C2_SingleProbe == Cardinality(ProbesInFlight) <= 1

\* C3: as long as the Auth service has answered every failed validate_token
\* with 401 or 403, failure_count stays 0 and the breaker CLOSED, whereas the
\* connection failure that makes failure_threshold consecutive failures opens it.
C3_ExpectedNegativeNotCounted ==
    [][ /\ ~depFailed' => (failure_count' = 0 /\ state' = CLOSED)
        /\ (/\ IsFailureStep
            /\ cbEv'.err \in {"ExternalServiceException:SERVICE_UNAVAILABLE",
                              "ExternalServiceException:SERVICE_TIMEOUT"}
            /\ consecFails' >= failure_threshold) => state' = OPEN ]_vars

\* C9 as claimed: an OPEN breaker rejects a call exactly when
\* now - last_failure_time < recovery_timeout and, from equality on, becomes
\* HALF_OPEN and invokes the operation.
C9_ProbeFromTimeout ==
    [][ (IsCallStep /\ state = OPEN) =>
            IF now - last_failure_time < recovery_timeout
            THEN RejectedStep /\ state' = OPEN
            ELSE InvokedStep /\ state' = HALF_OPEN ]_vars

\* C9 amended: an OPEN breaker rejects a call exactly when
\* now - last_failure_time <= recovery_timeout, and becomes HALF_OPEN and
\* invokes the operation only when strictly more than recovery_timeout has
\* passed since the last failure.
C9_ProbeAfterTimeout ==
    [][ (IsCallStep /\ state = OPEN) =>
            IF now - last_failure_time <= recovery_timeout
            THEN RejectedStep /\ state' = OPEN
            ELSE InvokedStep /\ state' = HALF_OPEN ]_vars

\* C9 witness: a call made exactly recovery_timeout after the last failure
\* has just been rejected.
C9_Witness ==
    /\ cbEv.kind = "reject"
    /\ state = OPEN
    /\ now - last_failure_time = recovery_timeout

\* C10: an OPEN breaker does not become CLOSED without passing through
\* HALF_OPEN, keeps its last_failure_time while it stays OPEN, invokes no
\* operation before recovery_timeout has passed since the failure that opened
\* it, and becomes HALF_OPEN only after that: calls that were in flight when
\* it opened do not change it by completing.
C10_OnlyProbeDecides ==
    [][ state = OPEN =>
            /\ state' # CLOSED
            /\ (state' = OPEN => last_failure_time' = last_failure_time)
            /\ (state' = HALF_OPEN => now - last_failure_time >= recovery_timeout)
            /\ (now - last_failure_time < recovery_timeout => ~InvokedStep) ]_vars

\* --------------------------------------------- rate limiter: observations

\* The step is a check_rate_limit call of identity u.
IsCheckStep(u) == rlEv'.kind \in {"admit", "reject"} /\ rlEv'.user = u

\* Of the instants in reqs, how many lie in the window of length len that
\* ends at instant t: those younger than len at t.
InWindow(reqs, t, len) ==
    Cardinality({i \in DOMAIN reqs : reqs[i] > t - len /\ reqs[i] <= t})

\* The stored lists of the known identities, each list named by its window.
StoredWithin(u) ==
    /\ InWindow(user_requests[u].minute, rlNow, MinuteLen) <= max_messages_per_minute
    /\ InWindow(user_requests[u].hour, rlNow, HourLen) <= max_messages_per_hour
    /\ InWindow(user_requests[u].day, rlNow, DayLen) <= max_messages_per_day

\* ---------------------------------------------------- rate limiter: claims

\* C4: while an identity's hour and day windows are below their limits, a
\* request is admitted when fewer than max_messages_per_minute admitted
\* requests of that identity are younger than one minute, and otherwise it is
\* rejected with RATE_LIMIT_EXCEEDED, limit_type messages_per_minute, limit L
\* and current L; a request exactly one minute old no longer counts.
C4_MinuteLimit ==
    [][ \A u \in Users :
          (/\ IsCheckStep(u)
           /\ InWindow(admitted[u], rlNow, HourLen) < max_messages_per_hour
           /\ InWindow(admitted[u], rlNow, DayLen) < max_messages_per_day) =>
             IF InWindow(admitted[u], rlNow, MinuteLen) < max_messages_per_minute
             THEN /\ rlEv'.kind = "admit"
                  /\ admitted'[u] = Append(admitted[u], rlNow)
             ELSE /\ InWindow(admitted[u], rlNow, MinuteLen) = max_messages_per_minute
                  /\ rlEv'.kind = "reject"
                  /\ rlEv'.code = "RATE_LIMIT_EXCEEDED"
                  /\ rlEv'.limit_type = "messages_per_minute"
                  /\ rlEv'.limit = max_messages_per_minute
                  /\ rlEv'.current = max_messages_per_minute
                  /\ admitted' = admitted ]_vars

\* C4 witness: request L+1 of an identity inside one minute has just been
\* rejected, its hour and day windows being below their limits.
C4_Witness ==
    /\ rlEv.kind = "reject"
    /\ rlEv.limit_type = "messages_per_minute"
    /\ rlEv.current = max_messages_per_minute
    /\ InWindow(admitted[rlEv.user], rlNow, HourLen) < max_messages_per_hour
    /\ InWindow(admitted[rlEv.user], rlNow, DayLen) < max_messages_per_day

\* C5: whatever the interleaving of the calls, for every identity the
\* admitted requests inside any minute, hour or day window never outnumber
\* that window's limit, and neither do the stored timestamps that lie inside
\* the trailing windows.
C5_WindowsWithinLimits ==
    /\ \A u \in Users : \A t \in 0..RlMaxTime :
          /\ InWindow(admitted[u], t, MinuteLen) <= max_messages_per_minute
          /\ InWindow(admitted[u], t, HourLen) <= max_messages_per_hour
          /\ InWindow(admitted[u], t, DayLen) <= max_messages_per_day
    /\ \A u \in DOMAIN user_requests : StoredWithin(u)

\* C5 witness: the requests of two identities have interleaved, and one of
\* them has just been rejected with its hour window exactly full.
C5_Witness ==
    /\ rlEv.kind = "reject"
    /\ rlEv.limit_type = "messages_per_hour"
    /\ InWindow(admitted[rlEv.user], rlNow, HourLen) = max_messages_per_hour
    /\ \E v \in Users \ {rlEv.user} : Len(admitted[v]) > 0

\* ------------------------------------------------ LLM client: observations

\* The step is the completion of an attempt with outcome k.
CompletesWith(k) ==
    /\ Len(outcomes') = Len(outcomes) + 1
    /\ outcomes'[Len(outcomes')] = k

\* Every attempt completed so far ended with outcome k.
AllOutcomes(k) == \A i \in DOMAIN outcomes : outcomes[i] = k

\* The delays base_delay * 2^n for n = 0 .. count - 1.
BackoffSchedule(count) == [i \in 1..count |-> base_delay * 2^(i - 1)]

\* The failure kinds the specification classifies as retryable.
Retryable == {"timeout", "connect_error", "500", "503", "429", "408"}

\* HTTP status errors other than 429 and 408.
Permanent == HttpErrorStatuses \ {"429", "408"}

\* ------------------------------------------------------ LLM client: claims

\* C6: when every attempt times out, failed attempt n = 0, 1, 2 is followed
\* by a sleep of base_delay * 2^n and one more request, and the failure of
\* request max_retries + 1 ends the call with the timeout error, with no
\* further sleep and no further request.
C6_TimeoutSchedule ==
    (outcomes # <<>> /\ AllOutcomes("timeout")) =>
        IF Len(outcomes) <= max_retries
        THEN /\ llmPc \in {"sleep", "request"}
             /\ sleeps = BackoffSchedule(Len(outcomes))
             /\ requests = Len(outcomes) + (IF llmPc = "request" THEN 1 ELSE 0)
        ELSE /\ llmPc = "done"
             /\ llmResult = "TimeoutError"
             /\ requests = max_retries + 1
             /\ sleeps = BackoffSchedule(max_retries)

\* C6 witness: all max_retries + 1 attempts have timed out.
C6_Witness ==
    /\ Len(outcomes) = max_retries + 1
    /\ AllOutcomes("timeout")
    /\ llmPc = "done"

\* C7: an attempt n < max_retries that fails with a retryable kind (timeout,
\* connection failure, 5xx, 429, 408) is followed by a sleep of
\* base_delay * 2^n, and the sleep by attempt n + 1.
C7_RetryableIsRetried ==
    [][ /\ \A k \in Retryable :
              (CompletesWith(k) /\ attempt < max_retries) =>
                  /\ llmPc' = "sleep"
                  /\ sleeps' = Append(sleeps, base_delay * 2^attempt)
        /\ llmPc = "sleep" =>
              /\ llmPc' = "request"
              /\ attempt' = attempt + 1
              /\ requests' = requests + 1 ]_vars

\* C8: an attempt that fails with a permanent error (an HTTP status error
\* other than 429 and 408) ends the call at once with that error: no sleep
\* and no request follow (a finished call takes no further step), so that a
\* permanent failure of the first attempt leaves exactly one request made.
C8_PermanentNotRetried ==
    [][ /\ \A k \in Permanent :
              CompletesWith(k) =>
                  /\ llmPc' = "done"
                  /\ llmResult' = "LLMError:LLM_SERVICE_ERROR"
                  /\ sleeps' = sleeps
                  /\ requests' = requests
                  /\ (Len(outcomes) = 0 => requests' = 1 /\ sleeps' = <<>>)
        /\ llmPc # "done" ]_vars

\* C8 witness: the first attempt was answered with 401 and the call is over.
C8_Witness ==
    /\ outcomes = <<"401">>
    /\ llmPc = "done"
    /\ requests = 1

\* ---------------------------------------------------------------- C11, C12

\* The step records the outcome of the operation some task was awaiting.
IsOutcomeStep ==
    \E t \in Tasks : pc[t] = "awaiting" /\ pc'[t] = "idle"

\* The step records a success.
IsSuccessStep == IsOutcomeStep /\ consecFails' = 0

\* C11: a failure recorded while the breaker is HALF_OPEN sets the state to
\* OPEN and last_failure_time to the time of that failure in that same step,
\* whatever the failure_threshold (1..MaxThreshold): the count does not have
\* to climb from zero again.
C11_ProbeFailureReopens ==
    [][(IsFailureStep /\ state = HALF_OPEN)
          => (state' = OPEN /\ last_failure_time' = now)]_vars

\* A failure has just been recorded on a HALF_OPEN breaker whose threshold is
\* above 1, after the recovery timeout had passed.
C11_Witness ==
    /\ cbEv.kind = "raise"
    /\ cbEv.resp # "none"
    /\ cbEv.was = HALF_OPEN
    /\ failure_threshold > 1
    /\ state = OPEN
    /\ last_failure_time = now
    /\ now > recovery_timeout

\* C12: failure_count is the number of failed operations recorded since the
\* most recent recorded success (or since creation); a recorded success, with
\* the breaker CLOSED or HALF_OPEN (or OPEN), sets failure_count to 0 and the
\* state to CLOSED; a recorded failure adds exactly 1; a call the open
\* breaker rejects changes nothing.
C12_CountsConsecutiveFailures ==
    /\ failure_count = consecFails
    /\ [][/\ failure_count' = consecFails'
          /\ IsSuccessStep => (failure_count' = 0 /\ state' = CLOSED)
          /\ IsFailureStep => failure_count' = failure_count + 1
          /\ RejectedStep => UNCHANGED <<failure_count, state, last_failure_time>>
          /\ ~IsOutcomeStep => failure_count' = failure_count]_vars

\* A success has just been recorded on a HALF_OPEN breaker that had counted
\* failures: the count is back to 0 and the breaker CLOSED.
C12_Witness ==
    /\ cbEv.kind = "return"
    /\ cbEv.was = HALF_OPEN
    /\ failure_count = 0
    /\ state = CLOSED
    /\ last_failure_time # None

\* ------------------------------------------------------------- C13 .. C17

\* The step is a get_rate_limit_info call of identity u.
IsInfoStep(u) == rlEv'.kind = "info" /\ rlEv'.user = u

\* What is stored for identity u: its entry, or no timestamps when the
\* identity is not known.
StoredEntry(u) == IF u \in DOMAIN user_requests THEN user_requests[u] ELSE NewEntry

\* The timestamps of reqs that still count at instant t in a window of length
\* len, in their order.
Counted(reqs, t, len) == SelectSeq(reqs, LAMBDA x : t - x < len)

\* The oldest of the admitted requests of u that count at instant t in a
\* window of length len (there is one whenever the window rejects).
OldestCounted(u, t, len) ==
    LET inside == {admitted[u][i] : i \in {j \in DOMAIN admitted[u] :
                                             t - admitted[u][j] < len}}
    IN CHOOSE x \in inside : \A y \in inside : x <= y

\* The length of the window a limit_type names.
WindowLen(limit_type) ==
    CASE limit_type = "messages_per_minute" -> MinuteLen
      [] limit_type = "messages_per_hour" -> HourLen
      [] limit_type = "messages_per_day" -> DayLen

\* What a check of identity u at the present instant must answer, computed
\* from the requests of u admitted so far and from nothing else.
ExpectedCheck(u) ==
    LET m == InWindow(admitted[u], rlNow, MinuteLen)
        h == InWindow(admitted[u], rlNow, HourLen)
        d == InWindow(admitted[u], rlNow, DayLen)
    IN  IF m >= max_messages_per_minute
        THEN [kind |-> "reject", limit_type |-> "messages_per_minute", current |-> m]
        ELSE IF h >= max_messages_per_hour
        THEN [kind |-> "reject", limit_type |-> "messages_per_hour", current |-> h]
        ELSE IF d >= max_messages_per_day
        THEN [kind |-> "reject", limit_type |-> "messages_per_day", current |-> d]
        ELSE [kind |-> "admit", limit_type |-> "none", current |-> m + 1]

\* C13: the reset_time a rejection carries is the timestamp of the oldest
\* request still counted in the breached window plus that window's length,
\* the instant at which that request stops counting.
C13_ResetWhenOldestExpires ==
    rlEv.kind = "reject" =>
        rlEv.reset_time =
            OldestCounted(rlEv.user, rlNow, WindowLen(rlEv.limit_type))
                + WindowLen(rlEv.limit_type)

\* C14: check_rate_limit rejects exactly when, after pruning, the minute, the
\* hour or the day window holds at least its limit; an admission appends the
\* one timestamp of the request to all three lists; a rejection appends to
\* none of them, also not to the windows checked before the breached one.
C14_AdmitAppendsRejectDoesNot ==
    [][\A u \in Users : IsCheckStep(u) =>
          LET minute == Counted(StoredEntry(u).minute, rlNow, MinuteLen)
              hour == Counted(StoredEntry(u).hour, rlNow, HourLen)
              day == Counted(StoredEntry(u).day, rlNow, DayLen)
              full == \/ Len(minute) >= max_messages_per_minute
                      \/ Len(hour) >= max_messages_per_hour
                      \/ Len(day) >= max_messages_per_day
          IN  /\ rlEv'.kind = "reject" <=> full
              /\ rlEv'.kind = "admit" =>
                    /\ user_requests'[u].minute = Append(minute, rlNow)
                    /\ user_requests'[u].hour = Append(hour, rlNow)
                    /\ user_requests'[u].day = Append(day, rlNow)
              /\ rlEv'.kind = "reject" =>
                    /\ user_requests'[u].minute = minute
                    /\ user_requests'[u].hour = hour
                    /\ user_requests'[u].day = day]_vars

\* A request has just been rejected by the hour window after the minute
\* window had let it pass, and the minute list has room left: the rejected
\* request is in none of the lists.
C14_Witness ==
    /\ rlEv.kind = "reject"
    /\ rlEv.limit_type = "messages_per_hour"
    /\ Len(user_requests[rlEv.user].minute) < max_messages_per_minute
    /\ Len(user_requests[rlEv.user].hour) = max_messages_per_hour
    /\ Len(user_requests[rlEv.user].day) < max_messages_per_day

\* C15: a check or an info call of identity u leaves what is stored and
\* counted for every other identity as it was, and its answer (admitted or
\* rejected, the remaining quotas) is determined by the requests of u admitted
\* so far and the clock alone: what another identity did has no part in it.
C15_IdentitiesIsolated ==
    [][\A u \in Users :
          /\ (IsCheckStep(u) \/ IsInfoStep(u)) =>
                \A v \in Users \ {u} :
                    /\ v \in DOMAIN user_requests' <=> v \in DOMAIN user_requests
                    /\ StoredEntry(v)' = StoredEntry(v)
                    /\ admitted'[v] = admitted[v]
          /\ IsCheckStep(u) => rlEv'.kind = ExpectedCheck(u).kind
          /\ IsInfoStep(u) =>
                rlEv'.remaining =
                    <<Max0(max_messages_per_minute
                             - InWindow(admitted[u], rlNow, MinuteLen)),
                      Max0(max_messages_per_hour
                             - InWindow(admitted[u], rlNow, HourLen)),
                      Max0(max_messages_per_day
                             - InWindow(admitted[u], rlNow, DayLen))>>]_vars

\* One identity has its minute window full, and a request of another
\* identity, which has requests of its own on record, has just been admitted.
C15_Witness ==
    /\ rlEv.kind = "admit"
    /\ Len(admitted[rlEv.user]) > 1
    /\ \E v \in Users \ {rlEv.user} :
          InWindow(admitted[v], rlNow, MinuteLen) = max_messages_per_minute

\* C16 as stated: get_rate_limit_info leaves _user_requests, the known
\* identities and every list of theirs, exactly as it was.
C16_InfoLeavesStoreAlone ==
    [][(\E u \in Users : IsInfoStep(u)) => user_requests' = user_requests]_vars

\* C16 as the code has it: get_rate_limit_info adds no identity and no
\* timestamp, leaves the other identities alone, and takes out of the lists of
\* the identity asked about exactly the timestamps that no longer count.
C16_InfoOnlyPrunes ==
    [][\A u \in Users : IsInfoStep(u) =>
          /\ DOMAIN user_requests' = DOMAIN user_requests
          /\ \A v \in DOMAIN user_requests \ {u} :
                user_requests'[v] = user_requests[v]
          /\ u \in DOMAIN user_requests =>
                /\ user_requests'[u].minute =
                      Counted(user_requests[u].minute, rlNow, MinuteLen)
                /\ user_requests'[u].hour =
                      Counted(user_requests[u].hour, rlNow, HourLen)
                /\ user_requests'[u].day =
                      Counted(user_requests[u].day, rlNow, DayLen)
          /\ admitted' = admitted]_vars

\* An info call has just taken expired timestamps out of the stored lists.
C16_Witness ==
    /\ rlEv.kind = "info"
    /\ rlEv.dropped
    /\ rlEv.user \in DOMAIN user_requests

\* C17: get_rate_limit_info calls put anywhere between check_rate_limit calls
\* change no outcome: an info call leaves the record of admitted requests as
\* it was, and every check answers what the admitted requests and the clock
\* alone determine (admitted or rejected, and for a rejection its limit_type
\* and current), whatever the info calls before it have pruned.
C17_InfoCallsChangeNoOutcome ==
    [][\A u \in Users :
          /\ IsInfoStep(u) => admitted' = admitted
          /\ IsCheckStep(u) =>
                /\ rlEv'.kind = ExpectedCheck(u).kind
                /\ rlEv'.limit_type = ExpectedCheck(u).limit_type
                /\ rlEv'.current = ExpectedCheck(u).current]_vars

\* A request has just been rejected right after an info call of the same
\* identity had pruned its stored lists.
C17_Witness ==
    /\ rlEv.kind = "reject"
    /\ rlEv.after_info

\* ---------------------------------------------------------------- C18, C19

\* The step is the start of a send_message call.
IsSendStep == llmPc = "idle" /\ llmPc' # "idle"

\* The errors that tell of an LLM service that gave no usable answer in time:
\* retries exhausted, or the service could not be reached.
UnavailableErrors == ExhaustedErrors \cup {"LLMError:LLM_CONNECTION_ERROR"}

\* What the caller of POST /llm/process gets for the finished send_message.
HttpAnswer == api_process_message_with_llm(process_message_with_llm(llmResult))

\* C18: the LLM dependency sits behind a circuit breaker that counts one
\* failure per send_message call; so once failure_threshold calls in a row
\* have exhausted their retries, the next call fails fast: it ends at once and
\* sends no request to the LLM service.
C18_FailsFastAfterThreshold ==
    [][(IsSendStep /\ exhausted >= failure_threshold)
          => (llmPc' = "done" /\ requests' = 0)]_vars

\* C19: when send_message has failed with its retries exhausted, or because
\* the LLM service could not be reached, the caller of POST /llm/process gets
\* a 503: not a success and not a 4xx.
C19_UnavailableIs503 ==
    (llmPc = "done" /\ llmResult \in UnavailableErrors) => HttpAnswer.status = 503

\* --------------------------------------------------------------------- C20

\* The step ends a validate_token call whose request could not reach the Auth
\* service: connection failure or timeout.
UnreachableStep ==
    /\ IsOutcomeStep
    /\ cbEv'.resp \in {"connect_error", "timeout"}

C22_ReraisesAfterRecording ==
    [][/\ IsFailureStep =>
             /\ cbEv'.exc = make_request(cbEv'.resp).exc
             /\ cbEv'.exc # "none"
             /\ failure_count' = failure_count + 1
             /\ last_failure_time' = now
             /\ state' = IF failure_count' >= failure_threshold THEN OPEN ELSE state
       /\ (cbEv'.exc # "none" /\ ~IsOutcomeStep) =>
             (RejectedStep /\ cbEv'.exc = CircuitOpenError)
       /\ (IsOutcomeStep /\ ~IsFailureStep) => cbEv'.exc = "none"]_vars

\* The operation of a call has just failed with a transport error, which the
\* breaker handed on as it was, and that failure has opened the breaker.
C22_Witness ==
    /\ cbEv.kind = "raise"
    /\ cbEv.exc \in {"ConnectError", "TimeoutException"}
    /\ cbEv.was = CLOSED
    /\ state = OPEN
    /\ failure_count = failure_threshold
    /\ last_failure_time = now

\* C25: in every reachable state, under every interleaving of calls, the
\* breaker is CLOSED exactly when failure_count < failure_threshold, and while
\* it is OPEN or HALF_OPEN last_failure_time is set.
C25_ClosedIffBelowThreshold ==
    /\ state = CLOSED <=> failure_count < failure_threshold
    /\ state \in {OPEN, HALF_OPEN} => last_failure_time # None

\* The breaker is HALF_OPEN with a probe in flight, and a failure of a call
\* started earlier has taken failure_count beyond the threshold.
C25_Witness ==
    /\ state = HALF_OPEN
    /\ failure_count > failure_threshold
    /\ ProbesInFlight # {}

\* C27: a call rejected by the open breaker leaves failure_count,
\* last_failure_time and state as they were, so the instant from which a probe
\* is allowed (last_failure_time + recovery_timeout) is not moved by rejected
\* calls, however many.
C27_RejectionChangesNothing ==
    [][RejectedStep =>
          /\ state = OPEN
          /\ UNCHANGED <<failure_count, last_failure_time, state>>
          /\ last_failure_time' + recovery_timeout' =
                 last_failure_time + recovery_timeout
          /\ should_attempt_reset' = should_attempt_reset]_vars

\* A call has just been rejected at the last instant at which the breaker
\* still rejects, a time after the failure that opened it.
C27_Witness ==
    /\ cbEv.kind = "reject"
    /\ state = OPEN
    /\ now = last_failure_time + recovery_timeout
    /\ failure_count = failure_threshold

\* ---------------------------------------------------------------- C21, C29

\* C21: a 404 answer of the Characters service is a normal result:
\* validate_character_exists returns False, get_character_info returns None,
\* and the breaker records a success (failure_count 0, state CLOSED); 404
\* answers never move the characters breaker toward OPEN.
C21_NotFoundIsSuccess ==
    [][(IsOutcomeStep /\ cbEv'.resp = "404") =>
          /\ cbEv'.kind = "return"
          /\ cbEv'.exc = "none"
          /\ cbEv'.op = "validate_character_exists" => cbEv'.value = "False"
          /\ cbEv'.op = "get_character_info" => cbEv'.value = "None"
          /\ ~IsFailureStep
          /\ failure_count' = 0
          /\ state' = CLOSED]_vars

\* The probe of a recovering characters breaker has just been answered 404 by
\* get_character_info: None is returned and the breaker is CLOSED again.
C21_Witness ==
    /\ cbEv.resp = "404"
    /\ cbEv.op = "get_character_info"
    /\ cbEv.value = "None"
    /\ cbEv.was = HALF_OPEN
    /\ state = CLOSED
    /\ failure_count = 0

\* C29: GET /health reports a dependency as "healthy" exactly when its
\* breaker is CLOSED, and as "degraded" exactly when it is OPEN or HALF_OPEN.
C29_HealthFollowsBreaker ==
    /\ state = CLOSED <=> dependency_health(state) = "healthy"
    /\ state \in {OPEN, HALF_OPEN} <=> dependency_health(state) = "degraded"

\* The errors that are an LLMServiceError: the class itself and its subclass
\* LLMTimeoutError, the two send_message can raise.
LLMServiceErrors == {"LLMServiceError", "LLMTimeoutError"}

\* The attempts _send_with_retry has completed so far.
LsAttemptsDone == IF lsPc \in {"sleep", "done"} THEN retry_count + 1 ELSE retry_count

\* No invocation of the client has succeeded.
LsAllFailed == \A i \in 1..Len(client_calls) : client_calls[i].outcome # "ok"

\* C23: _send_with_retry invokes the LLM client once per attempt and stops at
\* the first success, after at most lm_studio_max_retries + 1 invocations; if
\* every attempt fails there are exactly lm_studio_max_retries + 1
\* invocations, the sleep after failed attempt j (from 0) lasts 2^j seconds,
\* and send_message fails with an LLMServiceError.
C23_OneCallPerAttempt ==
    /\ lsPc # "idle" => Len(client_calls) = LsAttemptsDone
    /\ Len(client_calls) <= lm_studio_max_retries + 1
    /\ \A i \in 1..Len(client_calls) :
          client_calls[i].outcome = "ok" =>
              /\ i = Len(client_calls)
              /\ lsPc = "done"
              /\ lsResult = "response"
    /\ \A j \in 1..Len(lsSleeps) :
          /\ lsSleeps[j] = Pow2(j - 1)
          /\ client_calls[j].outcome # "ok"
    /\ (lsPc = "done" /\ LsAllFailed) =>
          /\ Len(client_calls) = lm_studio_max_retries + 1
          /\ lsSleeps = [j \in 1..lm_studio_max_retries |-> Pow2(j - 1)]
          /\ lsResult \in LLMServiceErrors
    /\ (lsPc = "done" /\ ~LsAllFailed) => Len(lsSleeps) = Len(client_calls) - 1

\* All four attempts have failed, the sleeps were 1, 2 and 4 seconds, and
\* send_message has raised.
C23_Witness ==
    /\ lsPc = "done"
    /\ LsAllFailed
    /\ Len(client_calls) = 4
    /\ lsSleeps = <<1, 2, 4>>
    /\ lsResult \in LLMServiceErrors

\* C24: when the LLM client call fails with asyncio.TimeoutError on every
\* attempt, send_message fails with LLMTimeoutError rather than with the
\* generic LLMServiceError.
C24_ClientTimeoutIsTimeoutError ==
    (/\ lsPc = "done"
     /\ \A i \in 1..Len(client_calls) : client_calls[i].outcome = "client_timeout")
        => lsResult = "LLMTimeoutError"

\* C26: every attempt of one _send_with_retry call passes the client the same
\* model and the same generation parameters as the first attempt, and
\* _make_request leaves the kwargs it is handed unchanged.
C26_SameArgumentsEachAttempt ==
    [][lsPc = "request" =>
          /\ \A i \in 1..Len(client_calls') :
                /\ client_calls'[i].model = client_calls'[1].model
                /\ client_calls'[i].params = client_calls'[1].params
          /\ kwargs' = kwargs]_vars

\* The sum of a sequence of delays.
RECURSIVE SumSeq(_)
SumSeq(seq) == IF seq = <<>> THEN 0 ELSE Head(seq) + SumSeq(Tail(seq))

\* C28: whatever the outcomes of the attempts, message-service send_message
\* makes at most max_retries + 1 requests, sleeps at most
\* base_delay * (2^max_retries - 1) seconds in total, and terminates by
\* returning or raising from inside the loop: the error after the loop,
\* LLM_MAX_RETRIES_EXCEEDED, is never raised.
C28_BoundedAndTerminates ==
    /\ [](/\ requests <= max_retries + 1
          /\ Len(outcomes) <= max_retries + 1
          /\ SumSeq(sleeps) <= base_delay * (2^max_retries - 1)
          /\ llmResult # "LLMError:LLM_MAX_RETRIES_EXCEEDED")
    /\ <>(llmPc = "done")

\* The longest call: three rate-limit answers slept through (1 + 2 + 4
\* seconds) and a fourth, after which the call has raised.
C28_Witness ==
    /\ llmPc = "done"
    /\ requests = max_retries + 1
    /\ outcomes = <<"429", "429", "429", "429">>
    /\ SumSeq(sleeps) = base_delay * (2^max_retries - 1)
    /\ llmResult = "LLMError:LLM_RATE_LIMIT_ERROR"

\* The step is a dispatch of a request of client ip.
IsDispatchStep(ip) == mwEv'.kind \in {"forwarded", "rejected"} /\ mwEv'.ip = ip

\* How many of the requests forwarded for ip are younger than the period at
\* instant t.
YoungForwarded(ip, t) ==
    Cardinality({i \in DOMAIN forwarded[ip] : t - forwarded[ip][i] < MwPeriod})

\* The instants of the requests forwarded for ip that are younger than the
\* period at instant t.
YoungForwardedAt(ip, t) ==
    SelectSeq(forwarded[ip], LAMBDA sent : t - sent < MwPeriod)

\* How many requests were forwarded for ip in the interval [t, t + MwPeriod).
ForwardedWithin(ip, t) ==
    Cardinality({i \in DOMAIN forwarded[ip] :
                    t <= forwarded[ip][i] /\ forwarded[ip][i] < t + MwPeriod})

\* The list the middleware holds for ip, empty for an unknown client.
MwStored(cl, ip) == IF ip \in DOMAIN cl THEN cl[ip] ELSE <<>>

\* C30: for each client IP the RateLimitMiddleware forwards a request if and
\* only if fewer than `calls` earlier forwarded requests of that IP are
\* younger than `period`, so at most `calls` forwarded requests fall in any
\* interval of length `period`; a rejected request is not recorded, so it
\* never delays a later admission, and the requests of one IP change nothing
\* for another.
C30_ForwardsWithinLimit ==
    /\ [](\A ip \in ClientIps : \A t \in 0..MwMaxTime :
              ForwardedWithin(ip, t) <= MwCalls)
    /\ [][\A ip \in ClientIps : IsDispatchStep(ip) =>
            /\ mwEv'.kind = "forwarded" <=> YoungForwarded(ip, mwNow) < MwCalls
            /\ mwEv'.kind = "forwarded" =>
                  /\ forwarded'[ip] = Append(forwarded[ip], mwNow)
                  /\ clients'[ip] = Append(YoungForwardedAt(ip, mwNow), mwNow)
            /\ mwEv'.kind = "rejected" =>
                  /\ mwEv'.status_code = 429
                  /\ forwarded'[ip] = forwarded[ip]
                  /\ clients'[ip] = YoungForwardedAt(ip, mwNow)
            /\ \A other \in ClientIps \ {ip} :
                  /\ forwarded'[other] = forwarded[other]
                  /\ MwStored(clients', other) = MwStored(clients, other)]_vars

\* A request of a client has just been rejected at the limit although older
\* requests of that client, by now out of the window, had been forwarded,
\* while the other client has had a request forwarded in the same window.
C30_Witness ==
    /\ mwEv.kind = "rejected"
    /\ YoungForwarded(mwEv.ip, mwNow) = MwCalls
    /\ Len(forwarded[mwEv.ip]) > MwCalls
    /\ \E other \in ClientIps \ {mwEv.ip} : YoungForwarded(other, mwNow) = 1
====
